---------------------------- MODULE Spec2Model ----------------------------
(***************************************************************************)
(* A model of the wol crate (src/src/lib.rs): parse_mac, create_payload,   *)
(* create_socket and the two send entry points send_magic_packet_v4 and    *)
(* send_magic_packet_v6.                                                   *)
(*                                                                         *)
(* Strings are sequences of one-character strings, byte vectors are        *)
(* sequences of naturals below 256.  Two specifications are given:         *)
(*   SpecParse  one call of parse_mac on an input string;                  *)
(*   Spec       one call of a send entry point on a byte vector, with the  *)
(*              operating system's answer to every socket call chosen      *)
(*              nondeterministically.                                      *)
(***************************************************************************)
EXTENDS Integers, Sequences, FiniteSets

VARIABLES
    input,      \* parse_mac: the argument `mac: String`
    parsed,     \* parse_mac: the returned Result, or NoResult before the call
    pc,         \* send: the next step of the call
    fn,         \* send: which entry point was called, "v4" or "v6"
    mac,        \* send: the argument `mac: Vec<u8>`
    buf,        \* send: the local `buf` (the payload), <<>> before it is built
    open,       \* send: the sockets currently open (their ids)
    opened,     \* send: the number of sockets the call has created
    sock,       \* send: the state of the local socket: address, flag, peer
    sent,       \* network: the datagrams handed to the transport, in order
    result,     \* send: how the call ended, or NoResult while it runs
    trace       \* history: the steps attempted so far, each with its outcome

parseVars == <<input, parsed>>
sendVars == <<pc, fn, mac, buf, open, opened, sock, sent, result, trace>>
vars == <<input, parsed, pc, fn, mac, buf, open, opened, sock, sent, result, trace>>

---------------------------------------------------------------------------
(* Bounds of the model. *)

\* The longest input of parse_mac, in ':'-separated tokens.
MaxTokens == 7

\* The longest byte vector passed to a send entry point.
MaxMacLen == 7

---------------------------------------------------------------------------
(* Program constants. *)

\* The radix passed to u8::from_str_radix.
Radix == 16

\* u8::MAX.
U8Max == 255

\* The vector length parse_mac requires.
MacLen == 6

\* The number of blocks in the payload, [u8; 17 * 6], and the upper end of the
\* loop `for x in 1..17`.
Blocks == 17

\* The bytes per block, and the upper end of the loop `for y in 0..6`.
BlockLen == 6

\* The fill byte of the payload.
FillByte == 255

PayloadLen == Blocks * BlockLen

---------------------------------------------------------------------------
(* Results. Every result is a record of the same shape. *)

NoResult == [tag |-> "None", val |-> <<>>, err |-> "", cause |-> ""]

Ok(v) == [tag |-> "Ok", val |-> v, err |-> "", cause |-> ""]

\* An Err of ParseError: err is the variant, cause the ParseIntError it carries.
Err(variant, c) == [tag |-> "Err", val |-> <<>>, err |-> variant, cause |-> c]

\* A panic ends the call without a result value; err is the panic's message.
Panic(msg) == [tag |-> "Panic", val |-> <<>>, err |-> msg, cause |-> ""]

---------------------------------------------------------------------------
(* u8::from_str_radix(s, 16) *)

HexLower == <<"0", "1", "2", "3", "4", "5", "6", "7", "8", "9",
              "a", "b", "c", "d", "e", "f">>

HexUpper == <<"0", "1", "2", "3", "4", "5", "6", "7", "8", "9",
              "A", "B", "C", "D", "E", "F">>

\* char::to_digit(16): the digit's value, or -1 for None.
to_digit(c) ==
    IF \E i \in 1..Radix : HexLower[i] = c
    THEN (CHOOSE i \in 1..Radix : HexLower[i] = c) - 1
    ELSE IF \E i \in 1..Radix : HexUpper[i] = c
    THEN (CHOOSE i \in 1..Radix : HexUpper[i] = c) - 1
    ELSE -1

\* The digit loop: each character is converted, then the accumulator is
\* multiplied by the radix and the digit added, both checked against u8::MAX.
RECURSIVE digits_loop(_, _, _)
digits_loop(digits, i, acc) ==
    IF i > Len(digits) THEN Ok(acc)
    ELSE LET x == to_digit(digits[i]) IN
         IF x < 0 THEN Err("ParseIntError", "InvalidDigit")
         ELSE IF acc * Radix > U8Max THEN Err("ParseIntError", "Overflow")
         ELSE IF acc * Radix + x > U8Max THEN Err("ParseIntError", "Overflow")
         ELSE digits_loop(digits, i + 1, acc * Radix + x)

\* An empty string is an error; a lone sign is an error; a leading '+' is
\* skipped; a leading '-' is not skipped for an unsigned type and so is an
\* invalid digit.
from_str_radix(src) ==
    IF Len(src) = 0 THEN Err("ParseIntError", "Empty")
    ELSE IF Len(src) = 1 /\ src[1] \in {"+", "-"}
    THEN Err("ParseIntError", "InvalidDigit")
    ELSE IF src[1] = "+" THEN digits_loop(Tail(src), 1, 0)
    ELSE digits_loop(src, 1, 0)

---------------------------------------------------------------------------
(* str::split(':') *)

\* The tokens of s: the maximal runs without ':', empty runs included.  The
\* empty string has one (empty) token.
RECURSIVE split_from(_, _, _, _)
split_from(s, i, cur, acc) ==
    IF i > Len(s) THEN Append(acc, cur)
    ELSE IF s[i] = ":" THEN split_from(s, i + 1, <<>>, Append(acc, cur))
    ELSE split_from(s, i + 1, Append(cur, s[i]), acc)

split(s) == split_from(s, 1, <<>>, <<>>)

---------------------------------------------------------------------------
(* parse_mac *)

\* The mutant of parse_mac: the length test accepts six tokens or more.
parse_mac_at_least_six(s) ==
    LET toks == split(s)
        rs == [i \in 1..Len(toks) |-> from_str_radix(toks[i])]
        bad == {i \in 1..Len(toks) : rs[i].tag = "Err"}
    IN  IF bad # {}
        THEN LET first == CHOOSE i \in bad : \A j \in bad : i <= j
             IN  Err("Number", rs[first].cause)
        ELSE IF Len(toks) >= MacLen
        THEN Ok([i \in 1..Len(toks) |-> rs[i].val])
        ELSE Err("Length", "")

\* Each token is parsed in order and the results are collected into a
\* Result<Vec<u8>, ParseIntError>: the first token that fails gives the error,
\* whatever the number of tokens.  Only a vector of parsed bytes is tested for
\* its length.
parse_mac(s) ==
    LET toks == split(s)
        rs == [i \in 1..Len(toks) |-> from_str_radix(toks[i])]
        bad == {i \in 1..Len(toks) : rs[i].tag = "Err"}
    IN  IF bad # {}
        THEN LET first == CHOOSE i \in bad : \A j \in bad : i <= j
             IN  Err("Number", rs[first].cause)
        ELSE IF Len(toks) = MacLen
        THEN Ok([i \in 1..Len(toks) |-> rs[i].val])
        ELSE Err("Length", "")

---------------------------------------------------------------------------
(* The inputs of parse_mac the model draws. *)

\* The tokens: empty, one digit, two digits of mixed case, a non-hex letter,
\* a signed digit of either sign, a value above 0xFF, three digits with a
\* leading zero, and a lone sign.
Tokens ==
    { <<>>, <<"0">>, <<"f", "F">>, <<"G", "G">>, <<"+", "A">>, <<"-", "1">>,
      <<"1", "0", "0">>, <<"0", "0", "a">>, <<"+">> }

\* The token every position holds unless another is chosen for it.
DefaultToken == <<"1", "2">>

RECURSIVE join(_)
join(toks) ==
    IF Len(toks) = 0 THEN <<>>
    ELSE IF Len(toks) = 1 THEN toks[1]
    ELSE toks[1] \o <<":">> \o join(Tail(toks))

\* Every string of 1..MaxTokens tokens that holds the default token
\* everywhere but at up to two positions, which hold any token of Tokens.
Inputs ==
    { join([i \in 1..n |-> IF i = p THEN t ELSE IF i = q THEN u ELSE DefaultToken]) :
        n \in 1..MaxTokens, p \in 1..MaxTokens, q \in 1..MaxTokens,
        t \in Tokens \cup {DefaultToken}, u \in Tokens \cup {DefaultToken} }

---------------------------------------------------------------------------
(* The initial values of the variables of the call that is not modelled. *)

NoSock == [bound |-> FALSE, local |-> <<>>, port |-> 0, broadcast |-> FALSE,
           connected |-> FALSE, peer |-> <<>>, peer_port |-> 0]

SendIdle ==
    /\ pc = "idle"
    /\ fn = "none"
    /\ mac = <<>>
    /\ buf = <<>>
    /\ open = {}
    /\ opened = 0
    /\ sock = NoSock
    /\ sent = <<>>
    /\ result = NoResult
    /\ trace = <<>>

ParseIdle ==
    /\ input = <<>>
    /\ parsed = NoResult

---------------------------------------------------------------------------
(* SpecParse: one call of parse_mac. *)

InitParse ==
    /\ input \in Inputs
    /\ parsed = NoResult
    /\ SendIdle

CallParseMac ==
    /\ parsed = NoResult
    /\ parsed' = parse_mac(input)
    /\ UNCHANGED <<input, sendVars>>

NextParse == CallParseMac

SpecParse == InitParse /\ [][NextParse]_vars

---------------------------------------------------------------------------
(* create_payload *)

\* mac[y] for y in 0..6 is out of bounds, and panics, when mac is shorter
\* than the block; a longer mac is read up to the block's end only.
create_payload_panics(m) == \E y \in 0..(BlockLen - 1) : y + 1 > Len(m)

\* The buffer [0xFF; 17 * 6] after the loops
\* `for x in 1..17 { for y in 0..6 { buf[x * 6 + y] = mac[y] } }`, with the
\* outer loop running from 1 to last - 1.  As y stays below 6, the only write
\* to index i is the one with x = i / 6 and y = i % 6, so the order of the
\* writes does not show in the result (element i + 1 is the code's buf[i]).
filled(m, last) ==
    [j \in 1..PayloadLen |->
        LET i == j - 1
            x == i \div BlockLen
            y == i % BlockLen
        IN  IF x \in 1..(last - 1) THEN m[y + 1] ELSE FillByte]

\* The mutant of create_payload: the outer loop stops one block early.
create_payload_short_loop(m) == filled(m, Blocks - 1)

\* The buffer starts as [0xFF; 17 * 6]; the loops overwrite blocks 1..16.
create_payload(m) == filled(m, Blocks)

---------------------------------------------------------------------------
(* The addresses of the two entry points. *)

\* Ipv4Addr::new(0, 0, 0, 0) and Ipv6Addr::new(0, 0, 0, 0, 0, 0, 0, 0): the
\* four octets, or the eight 16-bit segments, in order.
bind_address(f) ==
    IF f = "v4" THEN <<0, 0, 0, 0>> ELSE <<0, 0, 0, 0, 0, 0, 0, 0>>

\* Ipv4Addr::new(255, 255, 255, 255) and
\* Ipv6Addr::new(0xFF, 0x00, 0x00, 0x00, 0x00, 0x00, 0x00, 0x02): the first
\* 16-bit segment is 0x00FF.
connect_address(f) ==
    IF f = "v4" THEN <<255, 255, 255, 255>> ELSE <<255, 0, 0, 0, 0, 0, 0, 2>>

\* The port given with both addresses.
Port == 0

---------------------------------------------------------------------------
(* The end of a socket's scope. *)

\* The mutant of drop_socket: the socket stays open.
drop_socket_leak(s) == s

\* A UdpSocket is closed when its owner goes out of scope: at the return of
\* the function that holds it and, when a panic unwinds, on the way out.
drop_socket(s) == {}

---------------------------------------------------------------------------
(* The inputs and the operating system's answers the model draws. *)

Bytes == {0, 18, 255}

Macs == UNION { [1..n -> Bytes] : n \in 0..MaxMacLen }

\* What UdpSocket::send may return: an error, or the number of bytes the
\* transport accepted.
SendAnswers ==
    { [ok |-> FALSE, n |-> 0] } \cup
    { [ok |-> TRUE, n |-> k] : k \in {0, PayloadLen - 1, PayloadLen} }

Step(name, ok) == [step |-> name, ok |-> ok]

---------------------------------------------------------------------------
(* Spec: one call of send_magic_packet_v4 or send_magic_packet_v6. *)

Init ==
    /\ ParseIdle
    /\ pc = "build"
    /\ fn \in {"v4", "v6"}
    /\ mac \in Macs
    /\ buf = <<>>
    /\ open = {}
    /\ opened = 0
    /\ sock = NoSock
    /\ sent = <<>>
    /\ result = NoResult
    /\ trace = <<>>

\* let buf = create_payload(mac);
build ==
    /\ pc = "build"
    /\ IF create_payload_panics(mac)
       THEN /\ pc' = "done"
            /\ result' = Panic("index out of bounds")
            /\ trace' = Append(trace, Step("build", FALSE))
            /\ buf' = buf
       ELSE /\ pc' = "bind"
            /\ buf' = create_payload(mac)
            /\ trace' = Append(trace, Step("build", TRUE))
            /\ result' = result
    /\ UNCHANGED <<fn, mac, open, opened, sock, sent, parseVars>>

\* create_socket: let socket = UdpSocket::bind(address).unwrap();
bind ==
    /\ pc = "bind"
    /\ \E ok \in BOOLEAN :
         IF ok
         THEN /\ pc' = "set_broadcast"
              /\ open' = open \cup {opened + 1}
              /\ opened' = opened + 1
              /\ sock' = [sock EXCEPT !.bound = TRUE, !.local = bind_address(fn),
                                      !.port = Port]
              /\ trace' = Append(trace, Step("bind", TRUE))
              /\ result' = result
         ELSE /\ pc' = "done"
              /\ result' = Panic("called Result::unwrap() on an Err value")
              /\ trace' = Append(trace, Step("bind", FALSE))
              /\ UNCHANGED <<open, opened, sock>>
    /\ UNCHANGED <<fn, mac, buf, sent, parseVars>>

\* create_socket: socket.set_broadcast(true)?; Ok(socket)
\* and the caller's .expect("Could not create socket.")
set_broadcast ==
    /\ pc = "set_broadcast"
    /\ \E ok \in BOOLEAN :
         IF ok
         THEN /\ pc' = "connect"
              /\ sock' = [sock EXCEPT !.broadcast = TRUE]
              /\ trace' = Append(trace, Step("set_broadcast", TRUE))
              /\ UNCHANGED <<open, result>>
         ELSE /\ pc' = "done"
              /\ open' = drop_socket(open)
              /\ result' = Panic("Could not create socket.")
              /\ trace' = Append(trace, Step("set_broadcast", FALSE))
              /\ sock' = sock
    /\ UNCHANGED <<fn, mac, buf, opened, sent, parseVars>>

\* socket.connect((address, 0)).expect("Could not create connection.");
connect ==
    /\ pc = "connect"
    /\ \E ok \in BOOLEAN :
         IF ok
         THEN /\ pc' = "send"
              /\ sock' = [sock EXCEPT !.connected = TRUE,
                                      !.peer = connect_address(fn),
                                      !.peer_port = Port]
              /\ trace' = Append(trace, Step("connect", TRUE))
              /\ UNCHANGED <<open, result>>
         ELSE /\ pc' = "done"
              /\ open' = drop_socket(open)
              /\ result' = Panic("Could not create connection.")
              /\ trace' = Append(trace, Step("connect", FALSE))
              /\ sock' = sock
    /\ UNCHANGED <<fn, mac, buf, opened, sent, parseVars>>

\* The mutant of send: a failed send is tried once more.
send_retry ==
    /\ pc = "send"
    /\ \E a \in SendAnswers :
         IF a.ok
         THEN /\ pc' = "done"
              /\ sent' = Append(sent, [data |-> buf, to |-> sock.peer, accepted |-> a.n])
              /\ trace' = Append(trace, Step("send", TRUE))
              /\ result' = Ok(<<>>)
              /\ open' = drop_socket(open)
         ELSE LET again == trace[Len(trace)].step # "send" IN
              /\ pc' = IF again THEN "send" ELSE "done"
              /\ result' = IF again THEN result ELSE Panic("Could not send packet.")
              /\ trace' = Append(trace, Step("send", FALSE))
              /\ open' = IF again THEN open ELSE drop_socket(open)
              /\ sent' = sent
    /\ UNCHANGED <<fn, mac, buf, opened, sock, parseVars>>

\* socket.send(&buf).expect("Could not send packet."); Ok(())
\* The number of bytes send returns is dropped; the socket goes out of scope
\* on both ways out.
send ==
    /\ pc = "send"
    /\ \E a \in SendAnswers :
         IF a.ok
         THEN /\ pc' = "done"
              /\ sent' = Append(sent, [data |-> buf, to |-> sock.peer, accepted |-> a.n])
              /\ trace' = Append(trace, Step("send", TRUE))
              /\ result' = Ok(<<>>)
              /\ open' = drop_socket(open)
         ELSE /\ pc' = "done"
              /\ result' = Panic("Could not send packet.")
              /\ trace' = Append(trace, Step("send", FALSE))
              /\ open' = drop_socket(open)
              /\ sent' = sent
    /\ UNCHANGED <<fn, mac, buf, opened, sock, parseVars>>

Next == build \/ bind \/ set_broadcast \/ connect \/ send

Spec == Init /\ [][Next]_vars

---------------------------------------------------------------------------
(* What the claims speak of, stated without the program's operators. *)

HexDigitValues ==
    { <<"0", 0>>, <<"1", 1>>, <<"2", 2>>, <<"3", 3>>, <<"4", 4>>, <<"5", 5>>,
      <<"6", 6>>, <<"7", 7>>, <<"8", 8>>, <<"9", 9>>,
      <<"a", 10>>, <<"b", 11>>, <<"c", 12>>, <<"d", 13>>, <<"e", 14>>, <<"f", 15>>,
      <<"A", 10>>, <<"B", 11>>, <<"C", 12>>, <<"D", 13>>, <<"E", 14>>, <<"F", 15>> }

IsHexDigit(c) == \E p \in HexDigitValues : p[1] = c

HexDigitValue(c) == (CHOOSE p \in HexDigitValues : p[1] = c)[2]

\* The value of a string of hex digits, most significant digit first.
RECURSIVE HexNumber(_)
HexNumber(t) ==
    IF Len(t) = 0 THEN 0
    ELSE 16 * HexNumber(SubSeq(t, 1, Len(t) - 1)) + HexDigitValue(t[Len(t)])

\* The positions that bound the tokens of s: before the string, every ':',
\* after the string.
Cuts(s) == {0, Len(s) + 1} \cup {i \in 1..Len(s) : s[i] = ":"}

TokenCount(s) == Cardinality(Cuts(s)) - 1

\* The k-th cut, counting from 1.
Cut(s, k) == CHOOSE c \in Cuts(s) : Cardinality({d \in Cuts(s) : d < c}) = k - 1

\* The k-th token of s: what lies between the k-th cut and the next.
TokenAt(s, k) == SubSeq(s, Cut(s, k) + 1, Cut(s, k + 1) - 1)

\* A 1-2 digit hexadecimal number: no sign, no prefix.
ShortHex(t) == Len(t) \in {1, 2} /\ \A i \in 1..Len(t) : IsHexDigit(t[i])

\* Not a valid hexadecimal byte: empty, or with a non-hex character, or with a
\* value above 0xFF.
NotHexByte(t) ==
    \/ Len(t) = 0
    \/ \E i \in 1..Len(t) : ~IsHexDigit(t[i])
    \/ HexNumber(t) > 255

Called == parsed # NoResult

---------------------------------------------------------------------------
(* Claims about parse_mac, checked under SpecParse. *)

\* C2: parse_mac returns Ok exactly when the split on ':' yields exactly 6
\* tokens and every token is a 1-2 digit hexadecimal number without sign or
\* prefix; the Ok value is then the 6 byte values of the tokens in input order.
C2_OkExactlyForSixShortHexTokens ==
    Called =>
        LET wellFormed ==
                /\ TokenCount(input) = 6
                /\ \A k \in 1..TokenCount(input) : ShortHex(TokenAt(input, k))
        IN  /\ (parsed.tag = "Ok") <=> wellFormed
            /\ wellFormed =>
                 parsed.val = [k \in 1..6 |-> HexNumber(TokenAt(input, k))]

\* C3, as stated: every input whose split on ':' produces a token count
\* different from 6 makes parse_mac fail with the Length variant.
C3_LengthForEveryOtherCount ==
    (Called /\ TokenCount(input) # 6) =>
        (parsed.tag = "Err" /\ parsed.err = "Length")

\* C3, amended: every input whose split on ':' produces a token count
\* different from 6, and whose tokens are all accepted by the hexadecimal byte
\* parser, makes parse_mac fail with the Length variant.
C3_LengthWhenAllTokensParse ==
    ( /\ Called
      /\ TokenCount(input) # 6
      /\ \A k \in 1..TokenCount(input) :
            from_str_radix(TokenAt(input, k)).tag = "Ok" ) =>
        (parsed.tag = "Err" /\ parsed.err = "Length")

\* C3's case: seven tokens that all parse, answered with Length.
C3_Witness ==
    /\ Called
    /\ TokenCount(input) = 7
    /\ \A k \in 1..7 : from_str_radix(TokenAt(input, k)).tag = "Ok"
    /\ parsed.err = "Length"

\* C4: every input in which some token is not a valid hexadecimal byte (it
\* contains a non-hex character, has a value above 0xFF, or is empty) makes
\* parse_mac fail with the Number variant, which carries the integer-parse
\* error.
C4_NumberForEveryBadToken ==
    (Called /\ \E k \in 1..TokenCount(input) : NotHexByte(TokenAt(input, k))) =>
        (parsed.tag = "Err" /\ parsed.err = "Number" /\ parsed.cause # "")

---------------------------------------------------------------------------
(* Claims about the payload and the send entry points, checked under Spec. *)

\* C1: for a 6-byte mac the payload has length exactly 102, bytes [0,6) are
\* all 0xFF and, for every block i in 1..16, bytes [6i, 6i+6) equal the mac.
C1_PayloadStructure ==
    (buf # <<>> /\ Len(mac) = 6) =>
        /\ Len(buf) = 102
        /\ \A i \in 0..5 : buf[i + 1] = 255
        /\ \A i \in 1..16 : \A y \in 0..5 : buf[6 * i + y + 1] = mac[y + 1]

\* C1's case: a payload built from a 6-byte mac whose bytes differ.
C1_Witness ==
    /\ buf # <<>>
    /\ Len(mac) = 6
    /\ mac[1] # mac[2]
    /\ mac[6] # 255

\* C5: given a mac whose length is not exactly 6, the payload builder (and so
\* either send entry point) fails with a Length error returned to the caller:
\* it does not abort and builds no payload.
C5_LengthErrorForOtherLengths ==
    (pc # "build" /\ Len(mac) # 6) =>
        (buf = <<>> /\ result.tag = "Err" /\ result.err = "Length")

\* The stage a step belongs to.
StageOf(step) ==
    CASE step \in {"bind", "set_broadcast"} -> "socket"
      [] step = "connect" -> "connect"
      [] step = "send" -> "transmit"
      [] OTHER -> "none"

\* C6: every failure of a stage (bind, enable broadcast, connect, transmit)
\* ends the call by returning an Err that names the failed stage; none aborts
\* the call and none is swallowed into Ok.
C6_StageFailureIsReturned ==
    \A i \in 1..Len(trace) :
        (StageOf(trace[i].step) # "none" /\ ~trace[i].ok) =>
            (pc = "done" /\ result.tag = "Err" /\ result.err = StageOf(trace[i].step))

\* C7: the IPv4 path binds to 0.0.0.0 port 0 and connects to 255.255.255.255;
\* the IPv6 path binds to :: port 0 and connects to ff00::2 (first 16-bit
\* segment 0xFF00, last 0x0002, the others 0).
C7_Addresses ==
    /\ (sock.bound /\ fn = "v4") => (sock.local = <<0, 0, 0, 0>> /\ sock.port = 0)
    /\ (sock.bound /\ fn = "v6") =>
          (sock.local = <<0, 0, 0, 0, 0, 0, 0, 0>> /\ sock.port = 0)
    /\ (sock.connected /\ fn = "v4") => sock.peer = <<255, 255, 255, 255>>
    /\ (sock.connected /\ fn = "v6") => sock.peer = <<65280, 0, 0, 0, 0, 0, 0, 2>>

\* C8: a send entry point returns Ok only if the transport accepted all 102
\* bytes of the payload in its single send.
C8_OkOnlyIfAllAccepted ==
    result.tag = "Ok" => (Len(sent) = 1 /\ sent[1].accepted = 102)

Order == <<"build", "bind", "set_broadcast", "connect", "send">>

\* C9: within one call the steps happen in the order build, bind, enable
\* broadcast, connect, transmit, each at most once and each only after all
\* earlier steps succeeded; a call that succeeds has transmitted exactly one
\* datagram, the payload built from the mac; a call that fails has not
\* retried and has transmitted nothing.
C9_StepOrder ==
    /\ Len(trace) <= Len(Order)
    /\ \A i \in 1..Len(trace) : trace[i].step = Order[i]
    /\ \A i \in 1..(Len(trace) - 1) : trace[i].ok
    /\ Len(sent) <= 1
    /\ sent # <<>> => (Len(trace) = Len(Order) /\ trace[Len(trace)].ok)
    /\ result.tag = "Ok" =>
          /\ Len(sent) = 1
          /\ sent[1].data = create_payload(mac)
          /\ Len(trace) = Len(Order)
    /\ (pc = "done" /\ result.tag # "Ok") =>
          (sent = <<>> /\ ~trace[Len(trace)].ok)

\* C9's case: a call that went through all five steps and succeeded.
C9_Witness ==
    /\ pc = "done"
    /\ result.tag = "Ok"
    /\ Len(trace) = 5
    /\ Len(sent) = 1

\* C10: a call opens at most one socket, and on every way out (success, or
\* a failure to enable broadcast, to connect or to transmit) the socket it
\* opened is released when the call ends.
C10_SocketReleased ==
    /\ opened <= 1
    /\ Cardinality(open) <= opened
    /\ pc = "done" => open = {}

\* C10's case: a call that opened a socket and ended in a failure.
C10_Witness ==
    /\ pc = "done"
    /\ opened = 1
    /\ result.tag = "Panic"
    /\ open = {}

============================================================================
